---- MODULE Spec2Model ----
(***************************************************************************)
(* A model of tanema/ump: axis-aligned rectangles ("bodies") in a world    *)
(* indexed by a sparse grid of cells, the swept collision test of          *)
(* World.Project / Body.collide, and the resolution loop of Body.Move.     *)
(*                                                                         *)
(* float32 values are modelled as exact rationals <<n, d>> in lowest terms *)
(* with d > 0; the sentinel inf is <<1, 0>>.  All inputs are small         *)
(* integers, for which the float32 operations of the code are exact up to  *)
(* the rounding of a quotient, which preserves order and equality of the   *)
(* quotients compared here.                                                *)
(***************************************************************************)
EXTENDS Integers, Sequences, FiniteSets, TLC

VARIABLES
    cellSize,    \* grid.cellSize, fixed at NewWorld
    rows,        \* grid.rows: cy -> (cx -> cell)
    bodies,      \* every Body created so far, by ID
    curBodyID,   \* the process-wide id counter
    responses,   \* World.responses: filter name -> response function
    pc,          \* where the single thread is: "idle" or inside Move's check loop
    mover,       \* the body whose Move is running (0 when idle)
    goal,        \* check's working goal <<goalX, goalY>>
    projectedCols, \* check's frontier
    visited,     \* check's visited set
    collisions,  \* check's accumulated result list
    calls,       \* response functions invoked by the running Move, in order (history)
    dropped,     \* collisions the running Move dropped for want of a response function (history)
    ret,         \* what the last finished Move / Project / query returned
    last,        \* the last operation that completed (history)
    removed,     \* the bodies Remove was called on (history)
    used         \* how many operations after construction, and Moves, were applied (history)

vars == <<cellSize, rows, bodies, curBodyID, responses, pc, mover, goal,
          projectedCols, visited, collisions, calls, dropped, ret, last, removed, used>>

-----------------------------------------------------------------------------
(* Bounds of the model *)

MaxBodies == 3
MaxOps == 2
MaxMoves == 1
MaxActor == 1

-----------------------------------------------------------------------------
(* float32 arithmetic, as exact rationals *)

RECURSIVE GCD(_, _)
GCD(a, b) == IF b = 0 THEN a ELSE GCD(b, a % b)

IAbs(n) == IF n < 0 THEN -n ELSE n

Norm(n, d) ==
    LET reduce(g, s) == <<(s * n) \div g, (s * d) \div g>>
    IN  IF d = 0 THEN <<1, 0>>
        ELSE reduce(GCD(IAbs(n), IAbs(d)), IF d < 0 THEN -1 ELSE 1)

R(n) == <<n, 1>>

inf == <<1, 0>>

\* the products are taken over the least common denominator, to stay small
RAdd(a, b) ==
    LET sum(g) == Norm(a[1] * (b[2] \div g) + b[1] * (a[2] \div g), a[2] * (b[2] \div g))
    IN  IF a[2] = 1 /\ b[2] = 1 THEN <<a[1] + b[1], 1>> ELSE sum(GCD(a[2], b[2]))

RNeg(a) == <<-a[1], a[2]>>

RSub(a, b) == RAdd(a, RNeg(b))

RMul(a, b) ==
    LET prod(g1, g2) ==
            Norm((a[1] \div g1) * (b[1] \div g2), (a[2] \div g2) * (b[2] \div g1))
    IN  IF a[1] = 0 \/ b[1] = 0 THEN <<0, 1>>
        ELSE IF a[2] = 1 /\ b[2] = 1 THEN <<a[1] * b[1], 1>>
        ELSE prod(GCD(IAbs(a[1]), b[2]), GCD(IAbs(b[1]), a[2]))

RDiv(a, b) ==
    IF b[1] = 0 THEN inf
    ELSE RMul(a, IF b[1] < 0 THEN <<-b[2], -b[1]>> ELSE <<b[2], b[1]>>)

\* a < b; every finite value is below inf, and inf is not below itself
RLt(a, b) ==
    IF a = inf THEN FALSE
    ELSE IF b = inf THEN TRUE
    ELSE IF a[2] = b[2] THEN a[1] < b[1]
    ELSE LET less(g) == a[1] * (b[2] \div g) < b[1] * (a[2] \div g)
         IN  less(GCD(a[2], b[2]))

RLe(a, b) == a = b \/ RLt(a, b)

RFloor(a) == a[1] \div a[2]

RCeil(a) == -((-a[1]) \div a[2])

-----------------------------------------------------------------------------
(* Helpers of the package whose file is not among the sources *)

min(a, b) == IF RLt(a, b) THEN a ELSE b

max(a, b) == IF RLt(a, b) THEN b ELSE a

abs(a) == IF a[1] < 0 THEN RNeg(a) ELSE a

sign(a) == IF a[1] < 0 THEN R(-1) ELSE IF a[1] > 0 THEN R(1) ELSE R(0)

nearest(x, a, b) == IF RLt(abs(RSub(a, x)), abs(RSub(b, x))) THEN a ELSE b

crossProduct(x1, y1, x2, y2) == RSub(RMul(x1, y2), RMul(y1, x2))

-----------------------------------------------------------------------------
(* Sequences and maps *)

Range(s) == {s[i] : i \in DOMAIN s}

Perms(S) == {p \in [1..Cardinality(S) -> S] : Range(p) = S}

\* s without the elements of D, order kept
RECURSIVE Without(_, _)
Without(s, D) ==
    IF s = <<>> THEN <<>>
    ELSE IF Head(s) \in D THEN Without(Tail(s), D)
    ELSE <<Head(s)>> \o Without(Tail(s), D)

\* the map m with key k set to v (k added when absent)
Put(m, k, v) == [j \in DOMAIN m \cup {k} |-> IF j = k THEN v ELSE m[j]]

-----------------------------------------------------------------------------
(* cell.go *)

newCell == [bodies |-> {}, itemCount |-> 0]

\* c.bodies[body.ID] = body; c.itemCount = len(c.bodies)
enter(c, id) ==
    [bodies |-> c.bodies \cup {id}, itemCount |-> Cardinality(c.bodies \cup {id})]

\* delete(c.bodies, body.ID); c.itemCount = len(c.bodies)
leave(c, id) ==
    [bodies |-> c.bodies \ {id}, itemCount |-> Cardinality(c.bodies \ {id})]

-----------------------------------------------------------------------------
(* grid *)

cellCoordsAt(x, y) ==
    <<RFloor(RDiv(x, R(cellSize))), RFloor(RDiv(y, R(cellSize)))>>

\* a cell rectangle whose far edge is rounded down: a body inside one cell
\* covers no cell
toCellRectFloor(x, y, w, h) ==
    LET rect(c, cr, cb) == <<c[1], c[2], cr - c[1], cb - c[2]>>
    IN  rect(cellCoordsAt(x, y),
             RFloor(RDiv(RAdd(x, w), R(cellSize))),
             RFloor(RDiv(RAdd(y, h), R(cellSize))))

\* <<cx, cy, cw, ch>>
toCellRect(x, y, w, h) ==
    LET rect(c, cr, cb) == <<c[1], c[2], cr - c[1], cb - c[2]>>
    IN  rect(cellCoordsAt(x, y),
             RCeil(RDiv(RAdd(x, w), R(cellSize))),
             RCeil(RDiv(RAdd(y, h), R(cellSize))))

\* the rows after cellAt has looked up cell <<cx, cy>>: a missing row and a
\* missing cell are created, whoever asks
cellAt(rs, cx, cy) ==
    LET cellIn(withRow) ==
            IF cx \in DOMAIN withRow[cy] THEN withRow
            ELSE Put(withRow, cy, Put(withRow[cy], cx, newCell))
    IN  cellIn(IF cy \in DOMAIN rs THEN rs ELSE Put(rs, cy, <<>>))

\* the cell coordinates of the cell rectangle cr = <<cl, ct, cw, ch>>, row by
\* row, as the loops visit them
CellSeq(cr) ==
    IF cr[3] <= 0 \/ cr[4] <= 0 THEN <<>>
    ELSE [i \in 1..(cr[3] * cr[4]) |->
            <<cr[1] + ((i - 1) % cr[3]), cr[2] + ((i - 1) \div cr[3])>>]

\* every cell of body id's back-reference list leaves the body
RECURSIVE leaveAll(_, _, _)
leaveAll(rs, cs, id) ==
    IF cs = <<>> THEN rs
    ELSE LET c == Head(cs)
         IN  leaveAll(Put(rs, c[2], Put(rs[c[2]], c[1], leave(rs[c[2]][c[1]], id))),
                      Tail(cs), id)

\* g.cellAt(cx, cy, true).enter(body) for each cell of cs, in order
RECURSIVE enterAll(_, _, _)
enterAll(rs, cs, id) ==
    IF cs = <<>> THEN rs
    ELSE LET c == Head(cs)
             entered(r1) == Put(r1, c[2], Put(r1[c[2]], c[1], enter(r1[c[2]][c[1]], id)))
         IN  enterAll(entered(cellAt(rs, c[1], c[2])), Tail(cs), id)

\* grid.update: the world after body id was re-entered at its current rectangle
gridUpdate(W, id) ==
    LET b == W.bodies[id]
        entered(cs) ==
            [rows   |-> enterAll(leaveAll(W.rows, b.cells, id), cs, id),
             bodies |-> [W.bodies EXCEPT ![id].cells = cs]]
    IN  entered(CellSeq(toCellRect(b.x, b.y, b.w, b.h)))

\* a broad phase that looks at the cell of the rectangle's corner only
cellsAtCorner(W, l, t, w, h) ==
    LET missing(c) == c[2] \notin DOMAIN W.rows \/ c[1] \notin DOMAIN W.rows[c[2]]
        corner(c) == IF missing(c) THEN <<>> ELSE <<c>>
    IN  [world |-> W, cells |-> corner(cellCoordsAt(l, t))]

RECURSIVE createAll(_, _)
createAll(rs, cs) ==
    IF cs = <<>> THEN rs ELSE createAll(cellAt(rs, Head(cs)[1], Head(cs)[2]), Tail(cs))

\* a broad phase that gets each cell of the rectangle through cellAt
cellsCreated(W, l, t, w, h) ==
    LET made(cs) == [world |-> [W EXCEPT !.rows = createAll(W.rows, cs)], cells |-> cs]
    IN  made(CellSeq(toCellRect(l, t, w, h)))

\* grid.cellsInRect: the existing cells of the rectangle, in order; rows untouched
cellsInRect(W, l, t, w, h) ==
    LET missing(c) == c[2] \notin DOMAIN W.rows \/ c[1] \notin DOMAIN W.rows[c[2]]
        existing(cs) == Without(cs, {c \in Range(cs) : missing(c)})
    IN  [world |-> W, cells |-> existing(CellSeq(toCellRect(l, t, w, h)))]

-----------------------------------------------------------------------------
(* body.go: geometry *)

\* Calculates the minkowski difference between 2 rects, which is another rect
getDiff(b, o) ==
    [x |-> RSub(RSub(o.x, b.x), b.w),
     y |-> RSub(RSub(o.y, b.y), b.h),
     w |-> RAdd(b.w, o.w),
     h |-> RAdd(b.h, o.h)]

containsPoint(b, px, py) ==
    /\ RLt(b.x, px) /\ RLt(px, RAdd(b.x, b.w))
    /\ RLt(b.y, py) /\ RLt(py, RAdd(b.y, b.h))

getNearestCorner(b, px, py) ==
    <<nearest(px, b.x, RAdd(b.x, b.w)), nearest(py, b.y, RAdd(b.y, b.h))>>

\* vec1 = <<x1, y1, x2, y2>> is the ray, vec2 an edge; the fraction of the
\* ray where they cross, or inf
getRayIntersectionFractionOfFirstRay(vec1, vec2) ==
    LET within(t, u) ==
            IF RLe(R(0), t) /\ RLe(t, R(1)) /\ RLe(R(0), u) /\ RLe(u, R(1)) THEN t
            ELSE inf
        \* tnum is the numerator of t
        fraction(numerator, denominator, tnum) ==
            IF denominator = R(0) THEN inf
            ELSE within(RDiv(tnum, denominator), RDiv(numerator, denominator))
        cross(rx, ry, sx, sy, qx, qy) ==
            fraction(crossProduct(qx, qy, rx, ry), crossProduct(rx, ry, sx, sy),
                     crossProduct(qx, qy, sx, sy))
    IN  cross(RSub(vec1[3], vec1[1]), RSub(vec1[4], vec1[2]),
              RSub(vec2[3], vec2[1]), RSub(vec2[4], vec2[2]),
              RSub(vec2[1], vec1[1]), RSub(vec2[2], vec1[2]))

\* the four sides of the rectangle, each <<nx, ny, x1, y1, x2, y2>>
rayTests(b) ==
    LET sides(right, bottom) ==
            << <<R(-1), R(0), b.x, b.y, b.x, bottom>>,
               <<R(0), R(1), b.x, bottom, right, bottom>>,
               <<R(1), R(0), right, bottom, right, b.y>>,
               <<R(0), R(-1), right, b.y, b.x, b.y>> >>
    IN  sides(RAdd(b.x, b.w), RAdd(b.y, b.h))

\* the loop over the sides: acc = <<fraction, nx, ny>> so far
RECURSIVE rayLoop(_, _, _)
rayLoop(vec, sides, acc) ==
    IF sides = <<>> THEN acc
    ELSE LET side == Head(sides)
             better(x) == IF RLt(x, acc[1]) THEN <<x, side[1], side[2]>> ELSE acc
         IN  rayLoop(vec, Tail(sides),
                     better(getRayIntersectionFractionOfFirstRay(vec, SubSeq(side, 3, 6))))

\* <<fraction, nx, ny>>
getRayIntersectionFraction(b, ox, oy, dx, dy) ==
    rayLoop(<<ox, oy, RAdd(ox, dx), RAdd(oy, dy)>>, rayTests(b), <<inf, R(0), R(0)>>)

distanceTo(b, o) ==
    LET squares(dx, dy) == RAdd(RMul(dx, dx), RMul(dy, dy))
    IN  squares(RAdd(RSub(b.x, o.x), RDiv(RSub(b.w, o.w), R(2))),
                RAdd(RSub(b.y, o.y), RDiv(RSub(b.h, o.h), R(2))))

\* the filter name for the tag, the "default" entry when the tag has none,
\* the empty name when there is neither
GetResponse(b, tag) ==
    IF tag \in DOMAIN b.respMap THEN b.respMap[tag]
    ELSE IF "default" \in DOMAIN b.respMap THEN b.respMap["default"]
    ELSE ""

\* tags = <<>> is the nil slice of a call without tags
HasTag(b, tags) == tags = <<>> \/ b.tag \in Range(tags)

\* the nudge of the touch point along the normal, 0.01
TouchNudge == <<1, 100>>

\* <<>> for nil, else <<the collision>>
collide(b, o, goalX, goalY) ==
    LET \* the collision, once its Intersection and Normal are known
        touching(dx, dy, intersection, normal) ==
            [Intersection |-> intersection,
             Distance     |-> distanceTo(b, o),
             Body         |-> o.ID,
             Move         |-> <<dx, dy>>,
             Normal       |-> normal,
             Touch        |-> <<RAdd(RAdd(b.x, RMul(dx, intersection)),
                                     RMul(normal[1], TouchNudge)),
                                RAdd(RAdd(b.y, RMul(dy, intersection)),
                                     RMul(normal[2], TouchNudge))>>,
             Data         |-> <<R(0), R(0)>>,
             RespType     |-> GetResponse(b, o.tag)]
        \* intersecting and not moving - use minimum displacement vector
        overlap(dx, dy, p) ==
            << touching(dx, dy,
                        RMul(RNeg(min(b.w, abs(p[1]))), min(b.h, abs(p[2]))),
                        IF RLt(abs(p[1]), abs(p[2])) THEN <<sign(p[1]), sign(R(0))>>
                        ELSE <<sign(R(0)), sign(p[2])>>) >>
        \* ray = <<fraction, nx, ny>>
        swept(dx, dy, ray) ==
            IF ray[1] = inf THEN <<>>
            ELSE << touching(dx, dy, ray[1], <<ray[2], ray[3]>>) >>
        against(dx, dy, diff) ==
            IF containsPoint(diff, R(0), R(0)) /\ dx = R(0) /\ dy = R(0)
            THEN overlap(dx, dy, getNearestCorner(diff, R(0), R(0)))
            ELSE swept(dx, dy, getRayIntersectionFraction(diff, R(0), R(0), dx, dy))
    IN  IF o.ID = b.ID THEN <<>>
        ELSE against(RSub(goalX, b.x), RSub(goalY, b.y), getDiff(b, o))

-----------------------------------------------------------------------------
(* collisionsByDistance and sort.Sort *)

\* an order that forgets the Intersection
LessByDistance(s, i, j) == RLt(s[i].Distance, s[j].Distance)

Less(s, i, j) ==
    LET a == s[i]
        b == s[j]
    IN  IF a.Intersection = b.Intersection THEN RLt(a.Distance, b.Distance)
        ELSE RLt(a.Intersection, b.Intersection)

Swap(s, i, j) == [s EXCEPT ![i] = s[j], ![j] = s[i]]

\* the inner loop of the insertion sort sort.Sort runs on a short slice
RECURSIVE sift(_, _)
sift(s, j) ==
    IF j > 1 /\ Less(s, j, j - 1) THEN sift(Swap(s, j, j - 1), j - 1) ELSE s

RECURSIVE insertionSort(_, _)
insertionSort(s, i) ==
    IF i > Len(s) THEN s ELSE insertionSort(sift(s, i), i + 1)

sortSort(s) == insertionSort(s, 2)

-----------------------------------------------------------------------------
(* world: reads of the grid *)

\* The orders in which getBodiesInCells can return the bodies of the cells:
\* the cells in order, each cell's map in any order (a Go map is iterated in
\* an unspecified order), a body already seen (dict) or not matching the tags
\* left out.
RECURSIVE bodyOrders(_, _, _, _)
bodyOrders(W, cells, tags, dict) ==
    IF cells = <<>> THEN {<<>>}
    ELSE LET c     == Head(cells)
             here  == W.rows[c[2]][c[1]].bodies
             fresh == {id \in here : id \notin dict /\ HasTag(W.bodies[id], tags)}
         IN  {p \o rest : p \in Perms(fresh),
                          rest \in bodyOrders(W, Tail(cells), tags, dict \cup fresh)}

getBodiesInCells(W, cells, tags) == bodyOrders(W, cells, tags, {})

\* the collisions of b against the bodies of one order, unsorted
RECURSIVE collideAll(_, _, _, _, _)
collideAll(W, b, order, goalX, goalY) ==
    IF order = <<>> THEN <<>>
    ELSE collide(b, W.bodies[Head(order)], goalX, goalY)
         \o collideAll(W, b, Tail(order), goalX, goalY)

\* World.Project for body record b (its x, y are where the sweep starts):
\* the world it leaves and every list it can return
Project(W, b, goalX, goalY) ==
    LET found(cr) ==
            [world |-> cr.world,
             cols  |-> {sortSort(collideAll(cr.world, b, order, goalX, goalY)) :
                          order \in getBodiesInCells(cr.world, cr.cells, <<>>)}]
        swept(tl, tt, tr, tb) == found(cellsInRect(W, tl, tt, RSub(tr, tl), RSub(tb, tt)))
    IN  swept(min(goalX, b.x), min(goalY, b.y),
              max(RAdd(goalX, b.w), RAdd(b.x, b.w)),
              max(RAdd(goalY, b.h), RAdd(b.y, b.h)))

\* World.QueryRect: the world it leaves and every list it can return
QueryRect(W, x, y, w, h, tags) ==
    LET found(cr) ==
            [world |-> cr.world, bodies |-> getBodiesInCells(cr.world, cr.cells, tags)]
    IN  found(cellsInRect(W, x, y, w, h))

\* World.QueryPoint: cellAt (which creates the cell when it is missing), then
\* the bodies of the cell that contain the point, in any order
QueryPoint(W, x, y, tags) ==
    LET under(c) ==
            {id \in c.bodies : HasTag(W.bodies[id], tags) /\ containsPoint(W.bodies[id], x, y)}
        found(cx, cy, rs) ==
            [world |-> [W EXCEPT !.rows = rs], bodies |-> Perms(under(rs[cy][cx]))]
        at(cc) == found(cc[1], cc[2], cellAt(W.rows, cc[1], cc[2]))
    IN  at(cellCoordsAt(x, y))

-----------------------------------------------------------------------------
(* The response filters: their file is not among the sources; they follow   *)
(* the contracts of the specification (section 4.4).                        *)

\* the sweep of b from the touch point of col towards <<gx, gy>>
Resweep(W, col, b, gx, gy) ==
    LET outcomes(p) == {[world |-> p.world, goal |-> <<gx, gy>>, cols |-> c] : c \in p.cols}
    IN  outcomes(Project(W, [b EXCEPT !.x = col.Touch[1], !.y = col.Touch[2]], gx, gy))

touchFilter(W, col, b, goalX, goalY) ==
    {[world |-> W, goal |-> col.Touch, cols |-> <<>>]}

crossFilter(W, col, b, goalX, goalY) ==
    LET outcomes(p) ==
            {[world |-> p.world, goal |-> <<goalX, goalY>>, cols |-> c] : c \in p.cols}
    IN  outcomes(Project(W, b, goalX, goalY))

slideFilter(W, col, b, goalX, goalY) ==
    LET moving == col.Move # <<R(0), R(0)>>
        sx == IF moving /\ col.Normal[1] = R(0) THEN goalX ELSE col.Touch[1]
        sy == IF moving /\ col.Normal[1] # R(0) THEN goalY ELSE col.Touch[2]
    IN  Resweep(W, col, b, sx, sy)

bounceFilter(W, col, b, goalX, goalY) ==
    LET moving == col.Move # <<R(0), R(0)>>
        \* <<bnx, bny>> is what is left of the movement at the touch point
        bx(bnx) == IF ~moving THEN col.Touch[1]
                   ELSE IF col.Normal[1] = R(0) THEN RAdd(col.Touch[1], bnx)
                   ELSE RSub(col.Touch[1], bnx)
        by(bny) == IF ~moving THEN col.Touch[2]
                   ELSE IF col.Normal[1] = R(0) THEN RSub(col.Touch[2], bny)
                   ELSE RAdd(col.Touch[2], bny)
    IN  Resweep(W, col, b, bx(RSub(goalX, col.Touch[1])), by(RSub(goalY, col.Touch[2])))

\* a call of the response function registered as fn
Respond(fn, W, col, b, goalX, goalY) ==
    CASE fn = "touch"  -> touchFilter(W, col, b, goalX, goalY)
      [] fn = "cross"  -> crossFilter(W, col, b, goalX, goalY)
      [] fn = "slide"  -> slideFilter(W, col, b, goalX, goalY)
      [] fn = "bounce" -> bounceFilter(W, col, b, goalX, goalY)

-----------------------------------------------------------------------------
(* body.go and world: the operations, as functions of the world *)

defaultFilter == "slide"

\* newBody: the world with the new body id entered in the grid
newBody(W, id, tag, x, y, w, h) ==
    LET b == [ID |-> id, tag |-> tag, x |-> x, y |-> y, w |-> w, h |-> h,
              cells |-> <<>>, static |-> FALSE,
              respMap |-> [k \in {"default"} |-> defaultFilter]]
    IN  gridUpdate([W EXCEPT !.bodies = Put(W.bodies, id, b)], id)

\* Body.Update
BodyUpdate(W, id, x, y) ==
    LET b == W.bodies[id]
    IN  IF b.static \/ (b.x = x /\ b.y = y) THEN W
        ELSE gridUpdate([W EXCEPT !.bodies[id].x = x, !.bodies[id].y = y], id)

\* Body.Remove: the cells of the back-reference list leave the body; the
\* list itself is kept
BodyRemove(W, id) ==
    [W EXCEPT !.rows = leaveAll(W.rows, W.bodies[id].cells, id)]

\* Body.Position
Position(W, id) == <<W.bodies[id].x, W.bodies[id].y>>

-----------------------------------------------------------------------------
(* Inputs *)

CellSizes == {1, 2}

\* the rectangles World.Add is called with: <<tag, x, y, w, h>>
Rects ==
    {<<"ball", 0, 0, 1, 1>>,
     <<"wall", 2, 0, 1, 1>>}

\* where Update is asked to put a body
Pos == {<<0, 0>>, <<2, 0>>}

\* where Move and Project are asked to go
Goals == {<<5, 0>>, <<0, 0>>, <<4, 2>>}

\* the point of QueryPoint: <<x, y>>, each a rational
QueryPoints == {<< <<5, 2>>, <<1, 2>> >>}

\* the response maps SetResponses is called with
RespMaps ==
    {[k \in {"default", "wall"} |-> IF k = "wall" THEN "ghost" ELSE "touch"],
     [k \in {"default"} |-> "bounce"],
     [k \in {"ball"} |-> "cross"]}

BuiltIn == {"touch", "cross", "slide", "bounce"}

TheWorld == [rows |-> rows, bodies |-> bodies]

Ids == DOMAIN bodies

\* the bodies the operations after construction are applied to
Actors == Ids \cap (1..MaxActor)

NoRet == [cols |-> <<>>, x |-> R(0), y |-> R(0), bodies |-> <<>>]

Did(op, id) == [op |-> op, id |-> id, x |-> R(0), y |-> R(0)]

-----------------------------------------------------------------------------
(* The state machine *)

Init ==
    /\ cellSize \in CellSizes
    /\ rows = <<>>
    /\ bodies = <<>>
    /\ curBodyID = 0
    /\ responses = [n \in BuiltIn |-> n]
    /\ pc = "idle"
    /\ mover = 0
    /\ goal = <<R(0), R(0)>>
    /\ projectedCols = <<>>
    /\ visited = {}
    /\ collisions = <<>>
    /\ calls = <<>>
    /\ dropped = <<>>
    /\ ret = NoRet
    /\ last = Did("NewWorld", 0)
    /\ removed = {}
    /\ used = [ops |-> 0, moves |-> 0]

Idle == UNCHANGED <<pc, mover, goal, projectedCols, visited, collisions, calls, dropped>>

\* World.Add
Add ==
    /\ pc = "idle" /\ curBodyID < MaxBodies
    /\ \E r \in Rects :
         \E W \in {newBody(TheWorld, curBodyID + 1, r[1], R(r[2]), R(r[3]), R(r[4]), R(r[5]))} :
             /\ curBodyID' = curBodyID + 1
             /\ rows' = W.rows
             /\ bodies' = W.bodies
             /\ last' = Did("Add", curBodyID + 1)
    /\ ret' = NoRet
    /\ Idle
    /\ UNCHANGED <<cellSize, responses, removed, used>>

\* Body.Update
Update ==
    /\ pc = "idle" /\ used.ops < MaxOps
    /\ \E id \in Actors, p \in Pos :
         \E W \in {BodyUpdate(TheWorld, id, R(p[1]), R(p[2]))} :
             /\ rows' = W.rows
             /\ bodies' = W.bodies
             /\ last' = Did("Update", id)
    /\ used' = [used EXCEPT !.ops = @ + 1]
    /\ ret' = NoRet
    /\ Idle
    /\ UNCHANGED <<cellSize, curBodyID, responses, removed>>

\* Body.Remove
Remove ==
    /\ pc = "idle" /\ used.ops < MaxOps
    /\ \E id \in Actors :
         \E W \in {BodyRemove(TheWorld, id)} :
             /\ rows' = W.rows
             /\ bodies' = W.bodies
             /\ removed' = removed \cup {id}
             /\ last' = Did("Remove", id)
    /\ used' = [used EXCEPT !.ops = @ + 1]
    /\ ret' = NoRet
    /\ Idle
    /\ UNCHANGED <<cellSize, curBodyID, responses>>

\* Body.SetStatic
SetStatic ==
    /\ pc = "idle" /\ used.ops < MaxOps
    /\ \E id \in Actors, v \in BOOLEAN :
         /\ bodies' = [bodies EXCEPT ![id].static = v]
         /\ last' = Did("SetStatic", id)
    /\ used' = [used EXCEPT !.ops = @ + 1]
    /\ ret' = NoRet
    /\ Idle
    /\ UNCHANGED <<cellSize, rows, curBodyID, responses, removed>>

\* Body.SetResponses
SetResponses ==
    /\ pc = "idle" /\ used.ops < MaxOps
    /\ \E id \in Actors, m \in RespMaps :
         /\ bodies' = [bodies EXCEPT ![id].respMap = m]
         /\ last' = Did("SetResponses", id)
    /\ used' = [used EXCEPT !.ops = @ + 1]
    /\ ret' = NoRet
    /\ Idle
    /\ UNCHANGED <<cellSize, rows, curBodyID, responses, removed>>

\* World.AddResponse: a custom filter, one that stops at the touch point,
\* registered under a new name
AddResponse ==
    /\ pc = "idle" /\ used.ops < MaxOps
    /\ responses' = Put(responses, "ghost", "touch")
    /\ last' = Did("AddResponse", 0)
    /\ used' = [used EXCEPT !.ops = @ + 1]
    /\ ret' = NoRet
    /\ Idle
    /\ UNCHANGED <<cellSize, rows, bodies, curBodyID, removed>>

\* World.Project called with body id and goal <<gx, gy>>
ProjectOf(id, gx, gy) ==
    \E p \in {Project(TheWorld, bodies[id], gx, gy)} :
        /\ rows' = p.world.rows
        /\ bodies' = p.world.bodies
        /\ \E c \in p.cols : ret' = [NoRet EXCEPT !.cols = c]
        /\ last' = [op |-> "Project", id |-> id, x |-> gx, y |-> gy]
        /\ Idle
        /\ UNCHANGED <<cellSize, curBodyID, responses, removed>>

\* World.Project, called by the user
ProjectCall ==
    /\ pc = "idle" /\ used.ops < MaxOps
    /\ \E id \in Actors, g \in Goals : ProjectOf(id, R(g[1]), R(g[2]))
    /\ used' = [used EXCEPT !.ops = @ + 1]

\* the same call of World.Project once more
ProjectAgain ==
    /\ pc = "idle" /\ last.op = "Project"
    /\ ProjectOf(last.id, last.x, last.y)
    /\ UNCHANGED used

\* World.QueryPoint
QueryPointCall ==
    /\ pc = "idle" /\ used.ops < MaxOps
    /\ \E q \in QueryPoints :
         \E r \in {QueryPoint(TheWorld, q[1], q[2], <<>>)} :
             /\ rows' = r.world.rows
             /\ bodies' = r.world.bodies
             /\ \E bs \in r.bodies : ret' = [NoRet EXCEPT !.bodies = bs]
             /\ last' = [op |-> "QueryPoint", id |-> 0, x |-> q[1], y |-> q[2]]
    /\ used' = [used EXCEPT !.ops = @ + 1]
    /\ Idle
    /\ UNCHANGED <<cellSize, curBodyID, responses, removed>>

\* Body.Move up to the loop of check: the first Project, the visited set
MoveCall ==
    /\ pc = "idle" /\ used.ops < MaxOps /\ used.moves < MaxMoves
    /\ \E id \in Actors, g \in Goals :
         \E p \in {Project(TheWorld, bodies[id], R(g[1]), R(g[2]))} :
             /\ rows' = p.world.rows
             /\ bodies' = p.world.bodies
             /\ \E c \in p.cols : projectedCols' = c
             /\ mover' = id
             /\ goal' = <<R(g[1]), R(g[2])>>
             /\ visited' = {id}
    /\ collisions' = <<>>
    /\ calls' = <<>>
    /\ dropped' = <<>>
    /\ pc' = "check"
    /\ used' = [ops |-> used.ops + 1, moves |-> used.moves + 1]
    /\ UNCHANGED <<cellSize, curBodyID, responses, ret, last, removed>>

\* a loop that forgets to record the body it has resolved
markNothing(v, id) == v

\* visited[collision.Body] = true
markVisited(v, id) == v \cup {id}

\* a lookup that falls back on the default filter for an unregistered name
lookupOrDefault(rs, name) ==
    IF name \in DOMAIN rs THEN [fn |-> rs[name], ok |-> TRUE]
    ELSE [fn |-> "slide", ok |-> TRUE]

\* response, hasResp := body.world.responses[collision.RespType]
lookup(rs, name) ==
    IF name \in DOMAIN rs THEN [fn |-> rs[name], ok |-> TRUE]
    ELSE [fn |-> "", ok |-> FALSE]

\* one turn of the loop of check on a collision that is resolved
CheckResolve ==
    /\ pc = "check" /\ projectedCols # <<>>
    /\ LET collision == Head(projectedCols)
       IN  \E response \in {lookup(responses, collision.RespType)} :
               /\ collision.Body \notin visited /\ response.ok
               /\ collisions' = Append(collisions, collision)
               /\ \E out \in Respond(response.fn, TheWorld, collision,
                                     bodies[mover], goal[1], goal[2]) :
                    /\ goal' = out.goal
                    /\ projectedCols' = out.cols
                    /\ rows' = out.world.rows
                    /\ bodies' = out.world.bodies
               /\ visited' = markVisited(visited, collision.Body)
               /\ calls' = Append(calls, collision.Body)
    /\ UNCHANGED <<cellSize, curBodyID, responses, pc, mover, dropped, ret, last,
                   removed, used>>

\* one turn of the loop of check on a collision that is dropped
CheckSkip ==
    /\ pc = "check" /\ projectedCols # <<>>
    /\ LET collision == Head(projectedCols)
       IN  \E response \in {lookup(responses, collision.RespType)} :
               /\ ~(collision.Body \notin visited /\ response.ok)
               /\ dropped' = IF response.ok THEN dropped
                             ELSE Append(dropped, [Body     |-> collision.Body,
                                                   RespType |-> collision.RespType])
    /\ projectedCols' = Tail(projectedCols)
    /\ UNCHANGED <<cellSize, rows, bodies, curBodyID, responses, pc, mover, goal,
                   visited, collisions, calls, ret, last, removed, used>>

\* the loop of check is over: Move calls Update and returns
MoveReturn ==
    /\ pc = "check" /\ projectedCols = <<>>
    /\ \E W \in {BodyUpdate(TheWorld, mover, goal[1], goal[2])} :
           /\ rows' = W.rows
           /\ bodies' = W.bodies
    /\ ret' = [NoRet EXCEPT !.x = goal[1], !.y = goal[2], !.cols = collisions]
    /\ last' = Did("Move", mover)
    /\ pc' = "idle"
    /\ mover' = 0
    /\ goal' = <<R(0), R(0)>>
    /\ visited' = {}
    /\ collisions' = <<>>
    /\ calls' = <<>>
    /\ dropped' = <<>>
    /\ UNCHANGED <<cellSize, curBodyID, responses, projectedCols, removed, used>>

Next ==
    \/ Add
    \/ Update
    \/ Remove
    \/ SetStatic
    \/ SetResponses
    \/ AddResponse
    \/ ProjectCall
    \/ QueryPointCall
    \/ MoveCall
    \/ CheckResolve
    \/ CheckSkip
    \/ MoveReturn

Spec == Init /\ [][Next]_vars

-----------------------------------------------------------------------------
(* World.Project as a function of the world: worlds of one moving body and   *)
(* up to MaxOthers other bodies, built with World.Add, and calls of Project  *)
(* on the moving body.                                                       *)

MaxOthers == 2

GeoCellSizes == {1, 2, 3}

\* the moving body
GeoMover == <<"ball", 0, 0, 1, 1>>

\* the other bodies: in the way of a move along x, along y, against x, along
\* a diagonal; two that are hit at the same fraction at the same distance;
\* one that overlaps the moving body; one that touches it; one further away
GeoOthers ==
    {<<"wall", 2, 0, 1, 1>>,
     <<"wall", 2, 1, 1, 1>>,
     <<"wall", 0, 2, 1, 1>>,
     <<"wall", -2, 0, 1, 1>>,
     <<"wall", 2, 0, 1, 2>>,
     <<"wall", 2, -1, 1, 2>>,
     <<"ball", 0, 0, 2, 2>>,
     <<"ball", 1, 0, 1, 1>>,
     <<"ball", 4, 0, 1, 1>>}

GeoGoals ==
    {<<4, 0>>, <<7, 0>>, <<4, 2>>, <<0, 4>>, <<-4, 0>>, <<0, 0>>, <<1, 0>>}

RECURSIVE AddAll(_, _, _)
\* World.Add of the rectangles rects, the first of them as body id
AddAll(W, rects, id) ==
    IF rects = <<>> THEN W
    ELSE AddAll(newBody(W, id, Head(rects)[1], R(Head(rects)[2]), R(Head(rects)[3]),
                        R(Head(rects)[4]), R(Head(rects)[5])),
                Tail(rects), id + 1)

ProjectInit ==
    /\ cellSize \in GeoCellSizes
    /\ \E n \in 0..MaxOthers :
         \E others \in [1..n -> GeoOthers] :
             \E W \in {AddAll([rows |-> <<>>, bodies |-> <<>>], <<GeoMover>> \o others, 1)} :
                 /\ rows = W.rows
                 /\ bodies = W.bodies
                 /\ curBodyID = n + 1
    /\ responses = [n \in BuiltIn |-> n]
    /\ pc = "idle"
    /\ mover = 0
    /\ goal = <<R(0), R(0)>>
    /\ projectedCols = <<>>
    /\ visited = {}
    /\ collisions = <<>>
    /\ calls = <<>>
    /\ dropped = <<>>
    /\ ret = NoRet
    /\ last = Did("Add", curBodyID)
    /\ removed = {}
    /\ used = [ops |-> 0, moves |-> 0]

\* World.Project of the moving body towards one of the goals
ProjectGoal ==
    /\ pc = "idle"
    /\ \E g \in GeoGoals : ProjectOf(1, R(g[1]), R(g[2]))
    /\ UNCHANGED used

ProjectNext ==
    \/ ProjectGoal
    \/ ProjectAgain

ProjectSpec == ProjectInit /\ [][ProjectNext]_vars

-----------------------------------------------------------------------------
(* The claims *)

\* the bodies of a returned list
BodiesOf(cols) == {cols[i].Body : i \in DOMAIN cols}

\* no element of the sequence occurs twice
NoRepeat(s) == \A i, j \in DOMAIN s : i # j => s[i] # s[j]

\* what is left for the loop of check to do: each turn either resolves a
\* body that was not visited, or shortens the frontier
Variant ==
    (Cardinality(Ids) - Cardinality(visited)) * Cardinality(Ids) + Len(projectedCols)

\* the response function the loop is about to invoke returns
Responds ==
    LET collision == Head(projectedCols)
        response  == lookup(responses, collision.RespType)
    IN  (collision.Body \notin visited /\ response.ok)
            => Respond(response.fn, TheWorld, collision, bodies[mover], goal[1], goal[2]) # {}

\* C1: inside the loop of check the visited set holds the moving body and the
\* bodies a response function was invoked for, each of them another body of
\* the world and none of them twice; the set only grows; and every turn of the
\* loop lowers a natural number, so that the loop reaches the empty frontier,
\* where Move returns.
C1_MoveTerminates ==
    /\ [](pc = "check" =>
            /\ mover \in visited
            /\ visited = {mover} \cup Range(calls)
            /\ Range(calls) \subseteq Ids \ {mover}
            /\ NoRepeat(calls)
            /\ Len(calls) = Len(collisions)
            /\ Variant >= 0
            /\ projectedCols # <<>> => Responds)
    /\ [][pc = "check" =>
            \/ projectedCols = <<>> /\ pc' = "idle"
            \/ /\ projectedCols # <<>> /\ pc' = "check"
               /\ visited \subseteq visited'
               /\ Variant' < Variant]_vars

\* a Move has returned after its loop invoked response functions for two
\* other bodies
C1_Witness == last.op = "Move" /\ Len(ret.cols) >= 2

\* the bodies QueryRect returns for body id's own rectangle, in every order
\* the cell maps may be iterated in
OwnRect(id) ==
    QueryRect(TheWorld, bodies[id].x, bodies[id].y, bodies[id].w, bodies[id].h, <<>>).bodies

\* C2, as amended: after a Move or an Update of a body on which Remove has
\* not been called, QueryRect of the body's own rectangle returns the body.
C2_OwnRectFindsLive ==
    (last.op \in {"Move", "Update"} /\ last.id \notin removed)
        => \A bs \in OwnRect(last.id) : last.id \in Range(bs)

\* a Move of a live body has ended at a touch point, off the integers
C2_Witness ==
    /\ last.op = "Move" /\ last.id \notin removed
    /\ bodies[last.id].x[2] # 1
    /\ \A bs \in OwnRect(last.id) : last.id \in Range(bs)

\* C2, as stated: after any Move or Update, whatever preceded it, QueryRect of
\* the body's own rectangle returns the body.
C2_OwnRectFindsAny ==
    last.op \in {"Move", "Update"}
        => \A bs \in OwnRect(last.id) : last.id \in Range(bs)

\* C4: when Move has returned, the body is at the position Move returned.
C4_MoveCommits ==
    last.op = "Move" => Position(TheWorld, last.id) = <<ret.x, ret.y>>

\* C5: a body on which Remove was called is not returned by QueryRect of its
\* own rectangle, whatever was done to the world since.
C5_RemovedStaysOut ==
    \A id \in removed : \A bs \in OwnRect(id) : id \notin Range(bs)

\* the grid has no cell at the cell coordinates c
MissingCell(rs, c) == c[2] \notin DOMAIN rs \/ c[1] \notin DOMAIN rs[c[2]]

\* C7: a QueryPoint at a point whose cell has not been created leaves the
\* rows of the grid as they were and returns no body.
C7_PointLookupCreatesNothing ==
    [][(last'.op = "QueryPoint" /\ used' # used
            /\ MissingCell(rows, cellCoordsAt(last'.x, last'.y)))
         => (rows' = rows /\ ret'.bodies = <<>>)]_vars

\* C8: a call of World.Project, and every step of Move from its first Project
\* to the end of the loop of check, leaves every body (position, size,
\* back-reference list) and every row and cell of the grid as it was.
C8_ProjectPure ==
    [][(\/ last'.op = "Project" /\ used' # used
        \/ pc = "idle" /\ pc' = "check"
        \/ pc = "check" /\ pc' = "check")
         => (rows' = rows /\ bodies' = bodies)]_vars

\* a Project has swept over a part of the grid without cells and found a body
C8_Witness ==
    /\ last.op = "Project" /\ last.x = R(5) /\ cellSize = 1
    /\ ret.cols # <<>>
    /\ MissingCell(rows, cellCoordsAt(R(5), R(0)))

\* the head of the frontier names a response function that is not registered
Unregistered ==
    /\ pc = "check" /\ projectedCols # <<>>
    /\ Head(projectedCols).RespType \notin DOMAIN responses

\* C10: a turn of the loop on a collision whose RespType is not registered
\* drops that collision and goes on with the rest of the frontier: the
\* result list, the working goal, the invoked response functions and the
\* world stay as they were; and no such collision is ever in the result.
C10_UnregisteredSkipped ==
    /\ [][Unregistered =>
            /\ projectedCols' = Tail(projectedCols)
            /\ pc' = "check"
            /\ collisions' = collisions
            /\ goal' = goal
            /\ calls' = calls
            /\ visited' = visited]_vars
    /\ [](\A i \in DOMAIN collisions : collisions[i].RespType \in DOMAIN responses)

\* the loop has dropped a collision of the empty RespType and has more of the
\* frontier to go through
C10_Witness ==
    /\ pc = "check" /\ dropped # <<>> /\ projectedCols # <<>>
    /\ dropped[1].RespType = ""

-----------------------------------------------------------------------------
(* The claims about World.Project, under ProjectSpec *)

\* the rectangle <<x, y, w, h>> and the rectangle of o, as closed sets, share
\* no point
Apart(x, y, w, h, o) ==
    \/ RLt(RAdd(x, w), o.x) \/ RLt(RAdd(o.x, o.w), x)
    \/ RLt(RAdd(y, h), o.y) \/ RLt(RAdd(o.y, o.h), y)

\* along one axis: the fractions <<lo, hi>> of the displacement d between
\* which the interval [l, l + s], moved, overlaps the interval [ol, ol + os]
\* in more than a point; none when lo >= hi
Span(l, s, ol, os, d) ==
    LET order(t1, t2) == <<min(t1, t2), max(t1, t2)>>
    IN  IF d = R(0)
        THEN IF RLt(l, RAdd(ol, os)) /\ RLt(ol, RAdd(l, s)) THEN <<R(0), R(1)>>
             ELSE <<R(1), R(0)>>
        ELSE order(RDiv(RSub(ol, RAdd(l, s)), d), RDiv(RSub(RAdd(ol, os), l), d))

\* the move of b to <<gx, gy>> carries b through o: b starts apart from o,
\* ends apart from o, and overlaps o on the way
Through(b, o, gx, gy) ==
    LET crossing(sx, sy) ==
            RLt(max(max(sx[1], sy[1]), R(0)), min(min(sx[2], sy[2]), R(1)))
    IN  /\ Apart(b.x, b.y, b.w, b.h, o)
        /\ Apart(gx, gy, b.w, b.h, o)
        /\ crossing(Span(b.x, b.w, o.x, o.w, RSub(gx, b.x)),
                    Span(b.y, b.h, o.y, o.h, RSub(gy, b.y)))

\* C3: when the move Project was called with carries the moving body through
\* another body (the rectangles sharing no point at the start and at the
\* goal), the returned list has a collision with that body whose
\* Intersection is greater than 0 and less than 1.
C3_TunnelingReported ==
    last.op = "Project" =>
        \A o \in Ids \ {last.id} :
            Through(bodies[last.id], bodies[o], last.x, last.y)
                => \E i \in DOMAIN ret.cols :
                       /\ ret.cols[i].Body = o
                       /\ RLt(R(0), ret.cols[i].Intersection)
                       /\ RLt(ret.cols[i].Intersection, R(1))

\* a diagonal move through a body, in a grid whose cells are larger than
\* the body
C3_Witness ==
    /\ last.op = "Project" /\ cellSize = 3
    /\ last.x # R(0) /\ last.y # R(0)
    /\ \E o \in Ids \ {last.id} :
           /\ Through(bodies[last.id], bodies[o], last.x, last.y)
           /\ o \in BodiesOf(ret.cols)

\* C6: a call of World.Project with the body and the goal of the call before
\* it, the world untouched in between, returns the list that call returned.
C6_ProjectRepeatable ==
    [][(last.op = "Project" /\ last' = last /\ rows' = rows /\ bodies' = bodies)
         => ret'.cols = ret.cols]_vars

\* C9: in the list Project returned, of every two adjacent collisions the
\* first has the smaller Intersection or, at equal Intersection, a Distance
\* that is not greater; and no collision of negative Intersection comes after
\* one whose Intersection is not negative.
C9_ProjectOrdered ==
    last.op = "Project" =>
        /\ \A i \in 1..(Len(ret.cols) - 1) :
               \/ RLt(ret.cols[i].Intersection, ret.cols[i + 1].Intersection)
               \/ /\ ret.cols[i].Intersection = ret.cols[i + 1].Intersection
                  /\ RLe(ret.cols[i].Distance, ret.cols[i + 1].Distance)
        /\ \A i, j \in DOMAIN ret.cols :
               (i < j /\ RLt(ret.cols[j].Intersection, R(0)))
                   => RLt(ret.cols[i].Intersection, R(0))

\* a list of two collisions, the nearer body hit later than the farther one
C9_Witness ==
    /\ last.op = "Project" /\ Len(ret.cols) = 2
    /\ RLt(ret.cols[1].Intersection, ret.cols[2].Intersection)
    /\ RLt(ret.cols[2].Distance, ret.cols[1].Distance)

\* the rectangles of b and o overlap in more than an edge or a corner
Overlaps(b, o) ==
    /\ RLt(b.x, RAdd(o.x, o.w)) /\ RLt(o.x, RAdd(b.x, b.w))
    /\ RLt(b.y, RAdd(o.y, o.h)) /\ RLt(o.y, RAdd(b.y, b.h))

\* C11: the list Project returned has a collision with every other body that
\* the moving body overlaps where it stands, whatever the goal was.
C11_OverlapReported ==
    last.op = "Project" =>
        \A o \in Ids \ {last.id} :
            Overlaps(bodies[last.id], bodies[o]) => o \in BodiesOf(ret.cols)

====
